---- MODULE Spec2Model ----
(***************************************************************************)
(* A model of twietlabs/jl.py: the contact trie, the reminder and project  *)
(* heaps, the DataManager that composes them and the HTTP request handler  *)
(* that drives them.                                                       *)
(*                                                                         *)
(* Python strings are modelled as sequences of Unicode code points, so     *)
(* that str.lower(), string comparison and iteration over characters are   *)
(* computed, not assumed.  Dictionaries created by the program are objects *)
(* in a memory (objs) and are held by reference.                           *)
(***************************************************************************)
EXTENDS Integers, Sequences, FiniteSets, Bags, TLC

VARIABLES
    root,       \* manager.contacts.root: the trie, node path -> node.contact
    objs,       \* memory: reference -> contact dict {'name','phone','email'}
    heap,       \* manager.reminders.heap: array of (timestamp, text)
    projects,   \* manager.projects.projects: array of (start, name, end)
    last,       \* the last container operation: its arguments and result
    snap,       \* the value a caller of get_data() holds
    conns,      \* the connections to the server and their handlers' progress
    ghost       \* the store as whole operations, one at a time, would leave it

vars == << root, objs, heap, projects, last, snap, conns, ghost >>

----------------------------------------------------------------------------
(* Bounds of the model *)

MaxContacts == 2
MaxReminders == 3
MaxProjects == 3
MaxConns == 2

----------------------------------------------------------------------------
(* Inputs *)

\* "", "a", "A", "ab", "B", "İ" (U+0130), "aΣ" (U+03A3), "aσ" (U+03C3)
Names ==
    { <<>>, <<97>>, <<65>>, <<97, 98>>, <<66>>, <<304>>, <<97, 931>>,
      <<97, 963>> }

Phones == { "555", "556" }

Emails == { "jo@x.com" }

Timestamps == { 1, 2 }

\* "x", "y"
Texts == { <<120>>, <<121>> }

\* the reminders added, (text, timestamp): two of a text, two of a timestamp
ReminderInputs == { << <<120>>, 1 >>, << <<120>>, 2 >>, << <<121>>, 2 >> }

\* "p", "q"
ProjectNames == { <<112>>, <<113>> }

\* dates, as strings: "1", "2"
Dates == { <<49>>, <<50>> }

\* the projects added, (name, start, end): two ends of a (name, start), two
\* names of a start, two starts of a name
ProjectInputs ==
    { << <<112>>, <<49>>, <<49>> >>, << <<112>>, <<49>>, <<50>> >>,
      << <<113>>, <<49>>, <<49>> >>, << <<112>>, <<50>>, <<49>> >>,
      << <<113>>, <<50>>, <<50>> >> }

----------------------------------------------------------------------------
(* Python values *)

None == 0

SetMax(S) == CHOOSE x \in S : \A y \in S : y <= x

SetMin(S) == CHOOSE x \in S : \A y \in S : x <= y

\* s < t for Python strings: lexicographic order of the code points
StrLess(s, t) ==
    \E k \in 0..Len(s) :
        /\ k <= Len(t)
        /\ \A j \in 1..k : s[j] = t[j]
        /\ IF k = Len(s) THEN k < Len(t)
           ELSE k < Len(t) /\ s[k + 1] < t[k + 1]

StrLeq(s, t) == s = t \/ StrLess(s, t)

startswith(s, prefix) ==
    Len(prefix) <= Len(s) /\ SubSeq(s, 1, Len(prefix)) = prefix

\* Unicode properties of the characters of the model
Cased(c) == c \in (65..90) \cup (97..122) \cup {304, 931, 962, 963}

CaseIgnorable(c) == c = 775

\* c.lower() for a one-character string c: a string, not always of length 1
CharLower(c) ==
    IF c \in 65..90 THEN << c + 32 >>
    ELSE IF c = 304 THEN << 105, 775 >>
    ELSE IF c = 931 THEN << 963 >>
    ELSE << c >>

\* whether the capital sigma at position i of s is in the Final_Sigma context
FinalSigma(s, i) ==
    LET before == { j \in 1..(i - 1) : ~CaseIgnorable(s[j]) }
        after == { j \in (i + 1)..Len(s) : ~CaseIgnorable(s[j]) }
    IN  /\ before # {}
        /\ Cased(s[SetMax(before)])
        /\ (after = {} \/ ~Cased(s[SetMin(after)]))

RECURSIVE LowerFrom(_, _)
LowerFrom(s, i) ==
    IF i > Len(s) THEN << >>
    ELSE (IF s[i] = 931 THEN (IF FinalSigma(s, i) THEN << 962 >> ELSE << 963 >>)
          ELSE CharLower(s[i])) \o LowerFrom(s, i + 1)

\* s.lower() for a whole string
StrLower(s) == LowerFrom(s, 1)

\* children visited in descending key order
RECURSIVE SortedCharsDesc(_)
SortedCharsDesc(S) ==
    IF S = {} THEN << >>
    ELSE LET m == SetMax(S) IN << m >> \o SortedCharsDesc(S \ {m})

RECURSIVE SortedChars(_)
SortedChars(S) ==
    IF S = {} THEN << >>
    ELSE LET m == SetMin(S) IN << m >> \o SortedChars(S \ {m})

----------------------------------------------------------------------------
(* TrieNode, ContactTrie *)

\* The tree of TrieNode objects is a function from the path of a node (the
\* characters on the edges from the root) to its contact field; a node's
\* children dict has the keys c for which the path extended by c is a node.
TrieNode == None

children(t, p) ==
    { q[Len(q)] :
        q \in { x \in DOMAIN t : Len(x) = Len(p) + 1 /\ startswith(x, p) } }

Prefixes(key) == { SubSeq(key, 1, k) : k \in 0..Len(key) }

Refs == 1..(2 * MaxContacts + 1)

NewRef(mem) == SetMin(Refs \ DOMAIN mem)

\* the contact dicts the trie refers to
Stored(t) == { t[p] : p \in DOMAIN t } \ { None }

\* insert that walks the name as given, without lower()
ContactTrie_insert_nolower(t, mem, name, phone, email) ==
    LET r == NewRef(mem)
        t1 == [ p \in DOMAIN t \cup Prefixes(name) |->
                  IF p \in DOMAIN t THEN t[p] ELSE None ]
    IN  [ root |-> [ t1 EXCEPT ![name] = r ],
          objs |-> [ x \in DOMAIN mem \cup {r} |->
                       IF x = r
                       THEN [ name |-> name, phone |-> phone, email |-> email ]
                       ELSE mem[x] ] ]

\* insert that refuses the empty name
ContactTrie_insert_nonempty(t, mem, name, phone, email) ==
    IF name = << >> THEN [ root |-> t, objs |-> mem ]
    ELSE LET key == StrLower(name)
             r == NewRef(mem)
             t1 == [ p \in DOMAIN t \cup Prefixes(key) |->
                       IF p \in DOMAIN t THEN t[p] ELSE None ]
         IN  [ root |-> [ t1 EXCEPT ![key] = r ],
               objs |-> [ x \in DOMAIN mem \cup {r} |->
                            IF x = r
                            THEN [ name |-> name, phone |-> phone,
                                   email |-> email ]
                            ELSE mem[x] ] ]

ContactTrie_insert(t, mem, name, phone, email) ==
    LET key == StrLower(name)
        r == NewRef(mem)
        t1 == [ p \in DOMAIN t \cup Prefixes(key) |->
                  IF p \in DOMAIN t THEN t[p] ELSE TrieNode ]
    IN  [ root |-> [ t1 EXCEPT ![key] = r ],
          objs |-> [ x \in DOMAIN mem \cup {r} |->
                       IF x = r
                       THEN [ name |-> name, phone |-> phone, email |-> email ]
                       ELSE mem[x] ] ]

ContactTrie_search(t, name) ==
    LET key == StrLower(name)
    IN  IF key \in DOMAIN t THEN t[key] ELSE None

\* `char in node.children` for the string char and the node at path p
HasChild(t, p, char) == Len(char) = 1 /\ Append(p, char[1]) \in DOMAIN t

\* a delete that leaves the emptied child in place
DelChild_keep(t, q) == t

\* del node.children[char]: the child at path q goes with all below it
DelChild(t, q) == [ p \in { x \in DOMAIN t : ~startswith(x, q) } |-> t[p] ]

\* _delete(node, name, index) for the node at path p; index counts from 0.
\* The result is the trie afterwards and the returned boolean.
RECURSIVE ContactTrie_delete_rec(_, _, _, _)
ContactTrie_delete_rec(t, p, name, index) ==
    IF index = Len(name)
    THEN IF t[p] = None
         THEN [ root |-> t, ret |-> FALSE ]
         ELSE [ root |-> [ t EXCEPT ![p] = None ],
                ret |-> children(t, p) = {} ]
    ELSE LET char == CharLower(name[index + 1]) IN
         IF ~HasChild(t, p, char)
         THEN [ root |-> t, ret |-> FALSE ]
         ELSE LET q == Append(p, char[1])
                  sub == ContactTrie_delete_rec(t, q, name, index + 1)
                  t2 == DelChild(sub.root, q)
              IN  IF sub.ret
                  THEN [ root |-> t2,
                         ret |-> children(t2, p) = {} /\ t2[p] = None ]
                  ELSE [ root |-> sub.root, ret |-> FALSE ]

ContactTrie_delete(t, name) == ContactTrie_delete_rec(t, << >>, name, 0).root

\* _traverse(node) for the node at path p: the contacts appended, in order
RECURSIVE TraverseNode(_, _)
RECURSIVE TraverseChildren(_, _, _)
TraverseNode(t, p) ==
    (IF t[p] # None THEN << t[p] >> ELSE << >>)
        \o TraverseChildren(t, p, SortedChars(children(t, p)))

TraverseChildren(t, p, keys) ==
    IF keys = << >> THEN << >>
    ELSE TraverseNode(t, Append(p, Head(keys)))
             \o TraverseChildren(t, p, Tail(keys))

\* the list of (references to) contact dicts
ContactTrie_get_all_sorted(t) == TraverseNode(t, << >>)

\* search_prefix that walks the prefix as given, without lower()
ContactTrie_search_prefix_nolower(t, prefix) ==
    IF prefix \notin DOMAIN t THEN << >> ELSE TraverseNode(t, prefix)

\* search_prefix that answers an empty prefix with no contacts
ContactTrie_search_prefix_nonempty(t, prefix) ==
    LET prefix_lower == StrLower(prefix)
    IN  IF prefix_lower = << >> \/ prefix_lower \notin DOMAIN t THEN << >>
        ELSE TraverseNode(t, prefix_lower)

ContactTrie_search_prefix(t, prefix) ==
    LET prefix_lower == StrLower(prefix)
    IN  IF prefix_lower \notin DOMAIN t THEN << >>
        ELSE TraverseNode(t, prefix_lower)

\* objects no longer referenced are reclaimed
Collect(mem, live) == [ x \in DOMAIN mem \cap live |-> mem[x] ]

----------------------------------------------------------------------------
(* heapq, on arrays of tuples; positions count from 0 as in Python *)

\* a < b for two tuples of the same container: (timestamp, text) with a
\* numeric timestamp, or (start, name, end) with three strings
TupleLess(a, b) ==
    IF Len(a) = 2
    THEN a[1] < b[1] \/ (a[1] = b[1] /\ StrLess(a[2], b[2]))
    ELSE \/ StrLess(a[1], b[1])
         \/ a[1] = b[1] /\ StrLess(a[2], b[2])
         \/ a[1] = b[1] /\ a[2] = b[2] /\ StrLess(a[3], b[3])

\* x[0] < y[0], the comparison sorted(..., key=lambda x: x[0]) makes
KeyLess(a, b) == IF Len(a) = 2 THEN a[1] < b[1] ELSE StrLess(a[1], b[1])

RECURSIVE siftdown_loop(_, _, _, _)
siftdown_loop(h, startpos, pos, newitem) ==
    IF pos > startpos
    THEN LET parentpos == (pos - 1) \div 2
             parent == h[parentpos + 1]
         IN  IF TupleLess(newitem, parent)
             THEN siftdown_loop([ h EXCEPT ![pos + 1] = parent ],
                                startpos, parentpos, newitem)
             ELSE [ h EXCEPT ![pos + 1] = newitem ]
    ELSE [ h EXCEPT ![pos + 1] = newitem ]

siftdown(h, startpos, pos) == siftdown_loop(h, startpos, pos, h[pos + 1])

RECURSIVE siftup_loop(_, _, _, _, _)
siftup_loop(h, startpos, pos, childpos, newitem) ==
    IF childpos < Len(h)
    THEN LET rightpos == childpos + 1
             c == IF rightpos < Len(h)
                     /\ ~TupleLess(h[childpos + 1], h[rightpos + 1])
                  THEN rightpos ELSE childpos
         IN  siftup_loop([ h EXCEPT ![pos + 1] = h[c + 1] ],
                         startpos, c, 2 * c + 1, newitem)
    ELSE siftdown([ h EXCEPT ![pos + 1] = newitem ], startpos, pos)

siftup(h, pos) == siftup_loop(h, pos, pos, 2 * pos + 1, h[pos + 1])

heappush(h, item) == siftdown(Append(h, item), 0, Len(h))

\* for i in reversed(range(n//2)): _siftup(x, i)
RECURSIVE heapify_from(_, _)
heapify_from(h, i) == IF i < 0 THEN h ELSE heapify_from(siftup(h, i), i - 1)

\* a remove that leaves the filtered list as it is
heapify_skip(h) == h

heapify(h) == heapify_from(h, (Len(h) \div 2) - 1)

\* sorted(xs, key=lambda x: x[0]): a stable sort on the first component
RECURSIVE InsertByKey(_, _)
InsertByKey(sortedxs, x) ==
    IF sortedxs = << >> THEN << x >>
    ELSE IF KeyLess(x, sortedxs[Len(sortedxs)])
         THEN Append(InsertByKey(SubSeq(sortedxs, 1, Len(sortedxs) - 1), x),
                     sortedxs[Len(sortedxs)])
         ELSE Append(sortedxs, x)

RECURSIVE sorted(_)
sorted(xs) ==
    IF xs = << >> THEN << >>
    ELSE InsertByKey(sorted(SubSeq(xs, 1, Len(xs) - 1)), xs[Len(xs)])

----------------------------------------------------------------------------
(* ReminderQueue, ProjectQueue *)

\* add that keeps one entry per (timestamp, text)
ReminderQueue_add_unique(h, text, timestamp) ==
    IF \E i \in 1..Len(h) : h[i] = << timestamp, text >> THEN h
    ELSE heappush(h, << timestamp, text >>)

ReminderQueue_add(h, text, timestamp) == heappush(h, << timestamp, text >>)

\* get_all that returns the heap array as it is
ReminderQueue_get_all_unsorted(h) == h

ReminderQueue_get_all(h) == sorted(h)

\* a filter that drops on either field matching
ReminderQueue_filter_either(h, text, timestamp) ==
    SelectSeq(h, LAMBDA e : ~(e[1] = timestamp \/ e[2] = text))

\* the list comprehension of remove, before heapify
ReminderQueue_filter(h, text, timestamp) ==
    SelectSeq(h, LAMBDA e : ~(e[1] = timestamp /\ e[2] = text))

ReminderQueue_remove(h, text, timestamp) ==
    heapify(ReminderQueue_filter(h, text, timestamp))

ProjectQueue_add(ps, name, start_date, end_date) ==
    heappush(ps, << start_date, name, end_date >>)

ProjectQueue_get_all(ps) == sorted(ps)

ProjectQueue_filter(ps, name, start_date) ==
    SelectSeq(ps, LAMBDA e : ~(e[2] = name /\ e[1] = start_date))

ProjectQueue_remove(ps, name, start_date) ==
    heapify(ProjectQueue_filter(ps, name, start_date))

----------------------------------------------------------------------------
(* DataManager *)

\* get_data(): the contacts list holds the trie's own dicts (references);
\* the reminder and project dicts are built anew
DataManager_get_data(t, h, ps) ==
    [ contacts |-> ContactTrie_get_all_sorted(t),
      reminders |-> LET all == ReminderQueue_get_all(h)
                    IN  [ i \in 1..Len(all) |->
                            [ text |-> all[i][2], time |-> all[i][1] ] ],
      projects |-> LET all == ProjectQueue_get_all(ps)
                   IN  [ i \in 1..Len(all) |->
                           [ name |-> all[i][2], start |-> all[i][1],
                             end |-> all[i][3] ] ] ]

\* what a value returned by get_data() reads as (json.dumps of it), given
\* the memory its contact references point into
Dumps(d, mem) ==
    [ contacts |-> [ i \in 1..Len(d.contacts) |-> mem[d.contacts[i]] ],
      reminders |-> d.reminders,
      projects |-> d.projects ]

\* the JSON text of get_data() on a store
StateOf(t, mem, h, ps) == Dumps(DataManager_get_data(t, h, ps), mem)

----------------------------------------------------------------------------
(* Requests *)

NoRequest == [ method |-> "", path |-> "", action |-> "", args |-> << >> ]

Get(path) == [ method |-> "GET", path |-> path, action |-> "", args |-> << >> ]

Post(action, args) ==
    [ method |-> "POST", path |-> "/api", action |-> action, args |-> args ]

\* data.get('action') of a body without the key: None, which equals no tag
NoAction == ""

\* the six tags of the if/elif chain
Actions ==
    { "add_contact", "delete_contact", "add_reminder", "delete_reminder",
      "add_project", "delete_project" }

\* The requests clients send.  A POST's args are the fields of its JSON body
\* in the order do_POST reads them, up to the first one the body lacks.
Requests ==
    { Get("/api/data"), Get("/"), Get("/favicon.ico"),
      Post("add_contact", << <<65>>, "555", "jo@x.com" >>),
      Post("add_contact", << <<304>>, "555", "jo@x.com" >>),
      Post("delete_contact", << <<97>> >>),
      Post("delete_contact", << <<304>> >>),
      Post("delete_reminder", << <<120>>, 1 >>),
      Post("add_project", << <<112>>, <<49>>, <<50>> >>),
      Post("delete_project", << <<112>>, <<49>> >>),
      Post("rename_contact", << <<97>> >>),
      Post(NoAction, << >>),
      Post("add_contact", << >>),
      Post("add_contact", << <<65>> >>),
      Post("add_project", << <<112>>, <<49>> >>) }
      \cup { Post("add_reminder", r) : r \in ReminderInputs }

\* a handler that reads data['name'] for a tag it does not know
Fields_strict(action) ==
    CASE action \in { "add_contact", "add_project" } -> 3
      [] action \in { "add_reminder", "delete_reminder", "delete_project" } -> 2
      [] OTHER -> 1

\* the number of fields do_POST reads for an action
Fields(action) ==
    CASE action = "add_contact" -> 3
      [] action = "delete_contact" -> 1
      [] action = "add_reminder" -> 2
      [] action = "delete_reminder" -> 2
      [] action = "add_project" -> 3
      [] action = "delete_project" -> 2
      [] OTHER -> 0

----------------------------------------------------------------------------
(* State machine: the operations of the three containers of `manager` *)

NoData == << >>

\* the contact dicts a held get_data() value refers to
SnapRefs(sn) ==
    IF sn = NoData THEN {}
    ELSE { sn[1].contacts[i] : i \in 1..Len(sn[1].contacts) }

Live(t, sn) == Stored(t) \cup SnapRefs(sn)

\* Bookkeeping for `last`: size is the number of entries of the container
\* before the operation, hit how many of them the operation's target names
\* (for a contact: those of the same lower-cased name)
IsStored(t, mem, name) ==
    Cardinality({ r \in Stored(t) : StrLower(mem[r].name) = StrLower(name) })

Count(xs, x) == Cardinality({ i \in 1..Len(xs) : xs[i] = x })

\* a connection nobody has opened, or one that was answered and closed
Closed == [ pc |-> "closed", req |-> NoRequest, body |-> NoData, want |-> NoData ]

Init ==
    /\ root = [ p \in { << >> } |-> TrieNode ]
    /\ objs = << >>
    /\ heap = << >>
    /\ projects = << >>
    /\ last = [ op |-> "init", args |-> << >>, ret |-> None, hit |-> 0,
                size |-> 0 ]
    /\ snap = NoData
    /\ conns = [ c \in 1..MaxConns |-> Closed ]
    /\ ghost = [ root |-> [ p \in { << >> } |-> TrieNode ], objs |-> << >>,
                 heap |-> << >>, projects |-> << >> ]

contacts_insert(name, phone, email) ==
    /\ \/ Cardinality(Stored(root)) < MaxContacts
       \/ ContactTrie_search(root, name) # None
    /\ LET res == ContactTrie_insert(root, objs, name, phone, email)
       IN  /\ root' = res.root
           /\ objs' = Collect(res.objs, Live(res.root, snap))
    /\ last' = [ op |-> "insert", args |-> << name, phone, email >>,
                 ret |-> None, hit |-> IsStored(root, objs, name),
                 size |-> Cardinality(Stored(root)) ]
    /\ UNCHANGED << heap, projects, snap, conns, ghost >>

contacts_delete(name) ==
    /\ root' = ContactTrie_delete(root, name)
    /\ objs' = Collect(objs, Live(root', snap))
    /\ last' = [ op |-> "delete", args |-> << name >>, ret |-> None,
                 hit |-> IsStored(root, objs, name),
                 size |-> Cardinality(Stored(root)) ]
    /\ UNCHANGED << heap, projects, snap, conns, ghost >>

contacts_search(name) ==
    /\ last' = [ op |-> "search", args |-> << name >>,
                 ret |-> ContactTrie_search(root, name), hit |-> 0,
                 size |-> 0 ]
    /\ UNCHANGED << root, objs, heap, projects, snap, conns, ghost >>

contacts_search_prefix(prefix) ==
    /\ last' = [ op |-> "search_prefix", args |-> << prefix >>,
                 ret |-> ContactTrie_search_prefix(root, prefix), hit |-> 0,
                 size |-> 0 ]
    /\ UNCHANGED << root, objs, heap, projects, snap, conns, ghost >>

reminders_add(text, timestamp) ==
    /\ Len(heap) < MaxReminders
    /\ heap' = ReminderQueue_add(heap, text, timestamp)
    /\ last' = [ op |-> "add_reminder", args |-> << text, timestamp >>,
                 ret |-> None, hit |-> Count(heap, << timestamp, text >>),
                 size |-> Len(heap) ]
    /\ UNCHANGED << root, objs, projects, snap, conns, ghost >>

reminders_remove(text, timestamp) ==
    /\ heap' = ReminderQueue_remove(heap, text, timestamp)
    /\ last' = [ op |-> "remove_reminder", args |-> << text, timestamp >>,
                 ret |-> None, hit |-> Count(heap, << timestamp, text >>),
                 size |-> Len(heap) ]
    /\ UNCHANGED << root, objs, projects, snap, conns, ghost >>

projects_add(name, start_date, end_date) ==
    /\ Len(projects) < MaxProjects
    /\ projects' = ProjectQueue_add(projects, name, start_date, end_date)
    /\ last' = [ op |-> "add_project",
                 args |-> << name, start_date, end_date >>, ret |-> None,
                 hit |-> Count(projects, << start_date, name, end_date >>),
                 size |-> Len(projects) ]
    /\ UNCHANGED << root, objs, heap, snap, conns, ghost >>

projects_remove(name, start_date) ==
    /\ projects' = ProjectQueue_remove(projects, name, start_date)
    /\ last' = [ op |-> "remove_project", args |-> << name, start_date >>,
                 ret |-> None,
                 hit |-> Len(projects)
                           - Len(ProjectQueue_filter(projects, name, start_date)),
                 size |-> Len(projects) ]
    /\ UNCHANGED << root, objs, heap, snap, conns, ghost >>

NextTrie ==
    \/ \E name \in Names, phone \in Phones, email \in Emails :
           contacts_insert(name, phone, email)
    \/ \E name \in Names : contacts_delete(name)
    \/ \E name \in Names : contacts_search(name)
    \/ \E prefix \in Names : contacts_search_prefix(prefix)

SpecTrie == Init /\ [][NextTrie]_vars

NextQueues ==
    \/ \E r \in ReminderInputs : reminders_add(r[1], r[2])
    \/ \E text \in Texts, timestamp \in Timestamps :
           reminders_remove(text, timestamp)
    \/ \E p \in ProjectInputs : projects_add(p[1], p[2], p[3])
    \/ \E name \in ProjectNames, start_date \in Dates :
           projects_remove(name, start_date)

SpecQueues == Init /\ [][NextQueues]_vars

----------------------------------------------------------------------------
(* A caller that holds the value get_data() returned and writes to it *)

\* "a"
CallerNames == { <<97>> }

\* d = manager.get_data()
caller_get_data ==
    /\ snap' = << DataManager_get_data(root, heap, projects) >>
    /\ objs' = Collect(objs, Live(root, snap'))
    /\ last' = [ op |-> "get_data", args |-> << >>, ret |-> None, hit |-> 0,
                 size |-> 0 ]
    /\ UNCHANGED << root, heap, projects, conns, ghost >>

\* d['contacts'][i]['phone'] = phone, a write to the dict the list refers to
caller_set_phone(i, phone) ==
    /\ snap # NoData
    /\ i \in 1..Len(snap[1].contacts)
    /\ objs' = [ objs EXCEPT ![snap[1].contacts[i]].phone = phone ]
    /\ last' = [ op |-> "set_phone", args |-> << i, phone >>, ret |-> None,
                 hit |-> 0, size |-> 0 ]
    /\ UNCHANGED << root, heap, projects, snap, conns, ghost >>

\* del d['contacts'][0], a write to the list get_all_sorted() built
caller_del_contact ==
    /\ snap # NoData
    /\ snap[1].contacts # << >>
    /\ snap' = << [ snap[1] EXCEPT !.contacts = Tail(snap[1].contacts) ] >>
    /\ objs' = Collect(objs, Live(root, snap'))
    /\ last' = [ op |-> "del_contact", args |-> << >>, ret |-> None,
                 hit |-> 0, size |-> 0 ]
    /\ UNCHANGED << root, heap, projects, conns, ghost >>

\* d['reminders'][i]['text'] = text, a write to a dict get_data() built
caller_set_text(i, text) ==
    /\ snap # NoData
    /\ i \in 1..Len(snap[1].reminders)
    /\ snap' = << [ snap[1] EXCEPT !.reminders[i].text = text ] >>
    /\ last' = [ op |-> "set_text", args |-> << i, text >>, ret |-> None,
                 hit |-> 0, size |-> 0 ]
    /\ UNCHANGED << root, objs, heap, projects, conns, ghost >>

NextCaller ==
    \/ \E name \in CallerNames, phone \in Phones, email \in Emails :
           contacts_insert(name, phone, email)
    \/ \E name \in CallerNames : contacts_delete(name)
    \/ reminders_add(<<120>>, 1)
    \/ caller_get_data
    \/ \E i \in 1..MaxContacts, phone \in Phones : caller_set_phone(i, phone)
    \/ caller_del_contact
    \/ \E i \in 1..MaxReminders, text \in Texts : caller_set_text(i, text)

SpecCaller == Init /\ [][NextCaller]_vars

----------------------------------------------------------------------------
(* The HTTP server: RequestHandler on HTTPServer.serve_forever *)

Store == [ root |-> root, objs |-> objs, heap |-> heap, projects |-> projects ]

\* a chain whose delete_contact also drops the projects
Dispatch_cascade(st, action, args) ==
    CASE action = "add_contact" ->
           LET res == ContactTrie_insert(st.root, st.objs,
                                         args[1], args[2], args[3])
           IN  [ st EXCEPT !.root = res.root,
                           !.objs = Collect(res.objs, Live(res.root, snap)) ]
      [] action = "delete_contact" ->
           LET t == ContactTrie_delete(st.root, args[1])
           IN  [ st EXCEPT !.root = t,
                           !.objs = Collect(st.objs, Live(t, snap)),
                           !.projects = << >> ]
      [] action = "add_reminder" ->
           [ st EXCEPT !.heap = ReminderQueue_add(st.heap, args[1], args[2]) ]
      [] action = "delete_reminder" ->
           [ st EXCEPT !.heap = ReminderQueue_remove(st.heap, args[1], args[2]) ]
      [] action = "add_project" ->
           [ st EXCEPT !.projects =
                 ProjectQueue_add(st.projects, args[1], args[2], args[3]) ]
      [] action = "delete_project" ->
           [ st EXCEPT !.projects =
                 ProjectQueue_remove(st.projects, args[1], args[2]) ]
      [] OTHER -> st

\* the if/elif chain of do_POST on a store st: the whole container call
Dispatch(st, action, args) ==
    CASE action = "add_contact" ->
           LET res == ContactTrie_insert(st.root, st.objs,
                                         args[1], args[2], args[3])
           IN  [ st EXCEPT !.root = res.root,
                           !.objs = Collect(res.objs, Live(res.root, snap)) ]
      [] action = "delete_contact" ->
           LET t == ContactTrie_delete(st.root, args[1])
           IN  [ st EXCEPT !.root = t,
                           !.objs = Collect(st.objs, Live(t, snap)) ]
      [] action = "add_reminder" ->
           [ st EXCEPT !.heap = ReminderQueue_add(st.heap, args[1], args[2]) ]
      [] action = "delete_reminder" ->
           [ st EXCEPT !.heap = ReminderQueue_remove(st.heap, args[1], args[2]) ]
      [] action = "add_project" ->
           [ st EXCEPT !.projects =
                 ProjectQueue_add(st.projects, args[1], args[2], args[3]) ]
      [] action = "delete_project" ->
           [ st EXCEPT !.projects =
                 ProjectQueue_remove(st.projects, args[1], args[2]) ]
      [] OTHER -> st

\* the two removes assign the filtered list first and heapify it after
TwoSteps(action) == action \in { "delete_reminder", "delete_project" }

\* the container call up to that assignment
DispatchBegin(st, action, args) ==
    CASE action = "delete_reminder" ->
           [ st EXCEPT !.heap = ReminderQueue_filter(st.heap, args[1], args[2]) ]
      [] action = "delete_project" ->
           [ st EXCEPT !.projects =
                 ProjectQueue_filter(st.projects, args[1], args[2]) ]
      [] OTHER -> Dispatch(st, action, args)

\* and the heapify that ends it
DispatchEnd(st, action) ==
    CASE action = "delete_reminder" -> [ st EXCEPT !.heap = heapify(st.heap) ]
      [] action = "delete_project" ->
           [ st EXCEPT !.projects = heapify(st.projects) ]
      [] OTHER -> st

\* data[...] of a field the body lacks raises KeyError
MissingField(req) == Len(req.args) < Fields(req.action)

\* a request the bounds of the model leave room for
Fits(req) ==
    /\ (req.action = "add_contact" /\ ~MissingField(req)) =>
           \/ Cardinality(Stored(root)) < MaxContacts
           \/ ContactTrie_search(root, req.args[1]) # None
    /\ req.action = "add_reminder" => Len(heap) < MaxReminders
    /\ req.action = "add_project" => Len(projects) < MaxProjects

Handling(c) == conns[c].pc \notin { "closed", "sent" }

\* a server that hands every request to a thread of its own
ServerCanAcceptThreading == TRUE

\* HTTPServer handles a request to its end before it accepts the next
ServerCanAccept == \A c \in 1..MaxConns : ~Handling(c)

\* a client connects and sends a request, which waits to be accepted
client_send(c) ==
    /\ conns[c].pc = "closed"
    /\ conns' = [ conns EXCEPT ![c].pc = "sent" ]
    /\ UNCHANGED << root, objs, heap, projects, last, snap, ghost >>

\* the server accepts the connection; the handler reads the request
accept(c, req) ==
    /\ conns[c].pc = "sent"
    /\ ServerCanAccept
    /\ Fits(req)
    /\ conns' = [ conns EXCEPT ![c] = [ Closed EXCEPT !.pc = "dispatch",
                                                      !.req = req ] ]
    /\ UNCHANGED << root, objs, heap, projects, last, snap, ghost >>

do_GET(c) ==
    /\ conns[c].pc = "dispatch"
    /\ conns[c].req.method = "GET"
    /\ conns' =
         [ conns EXCEPT ![c] =
             CASE conns[c].req.path = "/" ->
                    [ @ EXCEPT !.pc = "respond", !.body = << "html" >>,
                               !.want = << "html" >> ]
               [] conns[c].req.path = "/api/data" ->
                    [ @ EXCEPT !.pc = "respond",
                               !.body = << StateOf(root, objs, heap, projects) >>,
                               !.want = << StateOf(ghost.root, ghost.objs,
                                                   ghost.heap, ghost.projects) >> ]
               [] OTHER -> Closed ]
    /\ UNCHANGED << root, objs, heap, projects, last, snap, ghost >>

\* a handler that catches the KeyError and goes on to send the state
do_POST_caught(c) ==
    /\ conns[c].pc = "dispatch"
    /\ conns[c].req.method = "POST"
    /\ LET req == conns[c].req IN
       IF MissingField(req)
       THEN /\ conns' = [ conns EXCEPT ![c].pc = "read" ]
            /\ UNCHANGED << root, objs, heap, projects, ghost >>
       ELSE LET st == DispatchBegin(Store, req.action, req.args) IN
            /\ root' = st.root
            /\ objs' = st.objs
            /\ heap' = st.heap
            /\ projects' = st.projects
            /\ ghost' = Dispatch(ghost, req.action, req.args)
            /\ conns' = [ conns EXCEPT ![c].pc =
                            IF TwoSteps(req.action) THEN "heapify" ELSE "read" ]
    /\ UNCHANGED << last, snap >>

\* do_POST up to the container call (to the filtered list, for a remove)
do_POST(c) ==
    /\ conns[c].pc = "dispatch"
    /\ conns[c].req.method = "POST"
    /\ LET req == conns[c].req IN
       IF MissingField(req)
       THEN /\ conns' = [ conns EXCEPT ![c].pc = "fault" ]
            /\ UNCHANGED << root, objs, heap, projects, ghost >>
       ELSE LET st == DispatchBegin(Store, req.action, req.args) IN
            /\ root' = st.root
            /\ objs' = st.objs
            /\ heap' = st.heap
            /\ projects' = st.projects
            /\ ghost' = Dispatch(ghost, req.action, req.args)
            /\ conns' = [ conns EXCEPT ![c].pc =
                            IF TwoSteps(req.action) THEN "heapify" ELSE "read" ]
    /\ UNCHANGED << last, snap >>

\* heapq.heapify of the filtered list
do_POST_heapify(c) ==
    /\ conns[c].pc = "heapify"
    /\ LET st == DispatchEnd(Store, conns[c].req.action) IN
       /\ heap' = st.heap
       /\ projects' = st.projects
    /\ conns' = [ conns EXCEPT ![c].pc = "read" ]
    /\ UNCHANGED << root, objs, last, snap, ghost >>

\* json.dumps(manager.get_data()) at the end of do_POST
do_POST_get_data(c) ==
    /\ conns[c].pc = "read"
    /\ conns' = [ conns EXCEPT
                    ![c].pc = "respond",
                    ![c].body = << StateOf(root, objs, heap, projects) >>,
                    ![c].want = << StateOf(ghost.root, ghost.objs, ghost.heap,
                                           ghost.projects) >> ]
    /\ UNCHANGED << root, objs, heap, projects, last, snap, ghost >>

\* the KeyError leaves do_POST uncaught: the server drops the connection
\* with nothing written to it
handle_error(c) ==
    /\ conns[c].pc = "fault"
    /\ conns' = [ conns EXCEPT ![c] = Closed ]
    /\ UNCHANGED << root, objs, heap, projects, last, snap, ghost >>

\* the response is written and the connection closed
finish(c) ==
    /\ conns[c].pc = "respond"
    /\ conns' = [ conns EXCEPT ![c] = Closed ]
    /\ UNCHANGED << root, objs, heap, projects, last, snap, ghost >>

NextServer ==
    \E c \in 1..MaxConns :
        \/ client_send(c)
        \/ \E req \in Requests : accept(c, req)
        \/ do_GET(c)
        \/ do_POST(c)
        \/ do_POST_heapify(c)
        \/ do_POST_get_data(c)
        \/ handle_error(c)
        \/ finish(c)

SpecServer == Init /\ [][NextServer]_vars

----------------------------------------------------------------------------
(* What get_data() shows in the current state *)

State == StateOf(root, objs, heap, projects)

\* the names of the contacts of a listing, in listing order
NamesOf(contacts) == [ i \in 1..Len(contacts) |-> contacts[i].name ]

ListedNames == NamesOf(State.contacts)

\* n and m are the same name case-insensitively
SameName(n, m) == StrLower(n) = StrLower(m)

Range(xs) == { xs[i] : i \in 1..Len(xs) }

----------------------------------------------------------------------------
(* Properties *)

\* C1: after any sequence of insertions and deletions the contacts list of
\* get_data() is in non-decreasing lexicographic order of the lower-cased
\* name (a name that is a proper prefix of another comes first).
C1_ContactsSorted ==
    \A i \in 1..(Len(ListedNames) - 1) :
        StrLeq(StrLower(ListedNames[i]), StrLower(ListedNames[i + 1]))

\* after a delete, "A" is listed before "ab", the name it is a prefix of
\* once lower-cased
C1_Witness ==
    /\ last.op = "delete"
    /\ ListedNames = << <<65>>, <<97, 98>> >>

\* C2: after any adds and removes, get_data() has reminders in non-decreasing
\* order of time and projects in non-decreasing order of start, entries of
\* equal key contiguous, whatever the order of the heap arrays.
C2_QueuesSorted ==
    LET rs == State.reminders
        ps == State.projects
    IN  /\ \A i, j \in 1..Len(rs) : i < j => rs[i].time <= rs[j].time
        /\ \A i, j \in 1..Len(ps) : i < j => StrLeq(ps[i].start, ps[j].start)
        /\ \A i, j, k \in 1..Len(rs) :
               i < k /\ k < j /\ rs[i].time = rs[j].time
                   => rs[k].time = rs[i].time
        /\ \A i, j, k \in 1..Len(ps) :
               i < k /\ k < j /\ ps[i].start = ps[j].start
                   => ps[k].start = ps[i].start

\* both heap arrays are out of key order, after a remove
C2_Witness ==
    /\ last.op \in { "remove_reminder", "remove_project" }
    /\ \E i \in 1..(Len(heap) - 1) : KeyLess(heap[i + 1], heap[i])
    /\ \E i \in 1..(Len(projects) - 1) : KeyLess(projects[i + 1], projects[i])

\* C3: the listing never holds two contacts of the same case-insensitive
\* name, and an insert under a name that is already stored case-insensitively
\* leaves the number of contacts as it was and puts the new record in place.
C3_OneContactPerName ==
    LET listed == State.contacts IN
    /\ \A i, j \in 1..Len(listed) :
           i # j => ~SameName(listed[i].name, listed[j].name)
    /\ (last.op = "insert" /\ last.hit > 0)
         => /\ Len(listed) = last.size
            /\ [ name |-> last.args[1], phone |-> last.args[2],
                 email |-> last.args[3] ] \in Range(listed)

\* "A" inserted over a stored contact of the same case-insensitive name
C3_Witness ==
    /\ last.op = "insert"
    /\ last.args[1] = <<65>>
    /\ last.hit = 1
    /\ ListedNames = << <<65>>, <<97, 98>> >>

\* C4: insert(n, ..) followed by delete(m), for m the same name as n
\* case-insensitively, leaves no contact for n: search(n) is None and the
\* listing has no contact of that name.
C4_DeleteAfterInsert ==
    [][ (/\ last.op = "insert"
         /\ last'.op = "delete"
         /\ SameName(last'.args[1], last.args[1]))
          => LET new == StateOf(root', objs', heap', projects').contacts
             IN  /\ ContactTrie_search(root', last.args[1]) = None
                 /\ \A i \in 1..Len(new) :
                        ~SameName(new[i].name, last.args[1])
      ]_vars

\* C5: search_prefix(prefix) returns exactly the stored contacts whose
\* lower-cased name starts with the lower-cased prefix, in ascending order of
\* lower-cased name (so all contacts for the empty prefix, none when no name
\* has the prefix).
C5_PrefixExact ==
    last.op = "search_prefix" =>
        LET res == last.ret
            key == StrLower(last.args[1])
        IN  /\ Range(res) = { r \in Stored(root) :
                                startswith(StrLower(objs[r].name), key) }
            /\ \A i, j \in 1..Len(res) :
                   i < j => StrLess(StrLower(objs[res[i]].name),
                                    StrLower(objs[res[j]].name))

\* search_prefix("A") with "a" and "B" stored returns the contact "a" alone
C5_Witness ==
    /\ last.op = "search_prefix"
    /\ last.args = << <<65>> >>
    /\ ListedNames = << <<97>>, <<66>> >>
    /\ Len(last.ret) = 1
    /\ objs[last.ret[1]].name = <<97>>

\* C6: a delete whose target matches no stored entry (a contact name that
\* search() does not find, a (text, timestamp) or (name, start) pair no entry
\* has) leaves get_data() exactly as it was, in all three lists.
C6_AbsentDeleteNoChange ==
    [][ (/\ last'.op \in { "delete", "remove_reminder", "remove_project" }
         /\ last'.hit = 0)
          => StateOf(root', objs', heap', projects')
                 = StateOf(root, objs, heap, projects)
      ]_vars

\* the entries of xs, counted, are those of ys without the ones in gone
Removed(xs, ys, gone) ==
    \A e \in Range(xs) \cup Range(ys) :
        Count(xs, e) = IF e \in gone THEN 0 ELSE Count(ys, e)

\* C7: remove(text, timestamp) removes every entry with that text and
\* timestamp and keeps every other entry with its multiplicity; the project
\* remove(name, start) does so for every project of that name and start,
\* whatever its end date.
C7_RemoveAllMatching ==
    [][ /\ last'.op = "remove_reminder" =>
               Removed(ReminderQueue_get_all(heap'), ReminderQueue_get_all(heap),
                       { << last'.args[2], last'.args[1] >> })
        /\ last'.op = "remove_project" =>
               Removed(ProjectQueue_get_all(projects'),
                       ProjectQueue_get_all(projects),
                       { << last'.args[2], last'.args[1], e >> : e \in Dates })
      ]_vars

\* one remove took two stored duplicates and left the third entry
C7_Witness ==
    /\ last.op = "remove_reminder"
    /\ last.hit = 2
    /\ Len(State.reminders) = 1

\* C8: each add increases the number of entries of get_all() by one and
\* changes no entry that was there, also when an identical entry is stored.
C8_AddOne ==
    [][ /\ last'.op = "add_reminder" =>
               LET new == ReminderQueue_get_all(heap')
                   old == ReminderQueue_get_all(heap)
                   item == << last'.args[2], last'.args[1] >>
               IN  /\ Len(new) = Len(old) + 1
                   /\ \A e \in Range(new) \cup Range(old) :
                          Count(new, e)
                              = Count(old, e) + (IF e = item THEN 1 ELSE 0)
        /\ last'.op = "add_project" =>
               LET new == ProjectQueue_get_all(projects')
                   old == ProjectQueue_get_all(projects)
                   item == << last'.args[2], last'.args[1], last'.args[3] >>
               IN  /\ Len(new) = Len(old) + 1
                   /\ \A e \in Range(new) \cup Range(old) :
                          Count(new, e)
                              = Count(old, e) + (IF e = item THEN 1 ELSE 0)
      ]_vars

\* the same reminder added twice: two equal entries in get_data().reminders
C8_Witness ==
    /\ last.op = "add_reminder"
    /\ last.hit = 1
    /\ Len(State.reminders) = 2
    /\ State.reminders[1] = State.reminders[2]

\* what search(name) returns, read through the memory
SearchValue(t, mem, name) ==
    IF ContactTrie_search(t, name) = None THEN << >>
    ELSE << mem[ContactTrie_search(t, name)] >>

\* what search_prefix(prefix) returns, read through the memory
PrefixValue(t, mem, prefix) ==
    LET res == ContactTrie_search_prefix(t, prefix)
    IN  [ i \in 1..Len(res) |-> mem[res[i]] ]

\* C9: a value returned by get_data() is an independent snapshot: a write
\* by the caller to the returned lists or to the records in them changes
\* nothing that get_data(), search() or search_prefix() return afterwards,
\* and a later mutation of the store changes no value already returned.
C9_SnapshotIndependent ==
    [][ /\ last'.op \in { "set_phone", "del_contact", "set_text" } =>
               /\ StateOf(root', objs', heap', projects')
                      = StateOf(root, objs, heap, projects)
               /\ \A n \in Names :
                      /\ SearchValue(root', objs', n) = SearchValue(root, objs, n)
                      /\ PrefixValue(root', objs', n) = PrefixValue(root, objs, n)
        /\ (last'.op \in { "insert", "delete", "add_reminder" }
               /\ snap # NoData)
             => Dumps(snap'[1], objs') = Dumps(snap[1], objs)
      ]_vars

\* C10: with several requests in flight, every get_data() result sent is the
\* state of the store after a complete sequence of the mutations dispatched
\* so far; one handler runs at a time, so no read falls between the steps of
\* a mutation and no two mutations interleave.
C10_ReadsSeeCompleteStates ==
    /\ \A c \in 1..MaxConns :
           conns[c].pc = "respond" => conns[c].body = conns[c].want
    /\ Cardinality({ c \in 1..MaxConns : Handling(c) }) <= 1
    /\ (\A c \in 1..MaxConns : conns[c].pc # "heapify")
         => State = StateOf(ghost.root, ghost.objs, ghost.heap, ghost.projects)

\* a remove has filtered the reminders and not yet heapified them (the list
\* is no heap, and read now would list ties in another order) while another
\* request waits to be accepted
C10_Witness ==
    \E c, d \in 1..MaxConns :
        /\ conns[c].pc = "heapify"
        /\ conns[d].pc = "sent"
        /\ heap # heapify(heap)
        /\ ReminderQueue_get_all(heap) # ReminderQueue_get_all(heapify(heap))

\* C11: a POST whose action is missing or is none of the six tags changes
\* none of the three containers and is answered (200) with the full
\* get_data() state, unchanged, not with an error.
C11_UnknownActionNoOp ==
    [][ \A c \in 1..MaxConns :
          (/\ conns[c].req.method = "POST"
           /\ conns[c].req.action \notin Actions
           /\ conns'[c] # conns[c])
            => /\ << root', objs', heap', projects', ghost' >>
                     = << root, objs, heap, projects, ghost >>
               /\ conns[c].pc = "dispatch" => conns'[c].pc = "read"
               /\ conns[c].pc = "read" =>
                      /\ conns'[c].pc = "respond"
                      /\ conns'[c].body
                             = << StateOf(root, objs, heap, projects) >>
      ]_vars

\* a POST without an action is being answered with a state that has
\* contacts and reminders
C11_Witness ==
    \E c \in 1..MaxConns :
        /\ conns[c].pc = "respond"
        /\ conns[c].req = Post(NoAction, << >>)
        /\ conns[c].body[1].contacts # << >>
        /\ conns[c].body[1].reminders # << >>

\* C12: each of the six mutations changes only its own container: the
\* contact actions leave the reminders and projects of get_data() as they
\* were, the reminder actions its contacts and projects, the project actions
\* its contacts and reminders.
C12_OwnContainerOnly ==
    [][ \A c \in 1..MaxConns :
          (/\ Handling(c)
           /\ conns[c].req.action \in Actions
           /\ << root', objs', heap', projects' >>
                  # << root, objs, heap, projects >>) =>
              LET a == conns[c].req.action
                  new == StateOf(root', objs', heap', projects')
                  old == StateOf(root, objs, heap, projects)
              IN  /\ a \in { "add_contact", "delete_contact" } =>
                         /\ new.reminders = old.reminders
                         /\ new.projects = old.projects
                  /\ a \in { "add_reminder", "delete_reminder" } =>
                         /\ new.contacts = old.contacts
                         /\ new.projects = old.projects
                  /\ a \in { "add_project", "delete_project" } =>
                         /\ new.contacts = old.contacts
                         /\ new.reminders = old.reminders
      ]_vars

\* delete_contact has run, with reminders and projects stored
C12_Witness ==
    \E c \in 1..MaxConns :
        /\ conns[c].pc = "read"
        /\ conns[c].req.action = "delete_contact"
        /\ Len(State.reminders) = 2
        /\ Len(State.projects) = 1

\* C13: search(name) returns the record of the most recent insert made
\* under a name equal to `name` case-insensitively and not deleted since,
\* and None when there is none.  Step by step: an insert makes search of
\* every name equal to its own return its record (name as spelled, phone,
\* email), a delete makes search of every such name return None, either
\* leaves what search returns for any other name (a prefix or an extension
\* of it included), and search itself returns that value.
C13_SearchLastInsert ==
    [][ /\ last'.op = "insert" =>
               \A m \in Names :
                   SearchValue(root', objs', m)
                     = IF SameName(m, last'.args[1])
                       THEN << [ name |-> last'.args[1],
                                 phone |-> last'.args[2],
                                 email |-> last'.args[3] ] >>
                       ELSE SearchValue(root, objs, m)
        /\ last'.op = "delete" =>
               \A m \in Names :
                   SearchValue(root', objs', m)
                     = IF SameName(m, last'.args[1]) THEN << >>
                       ELSE SearchValue(root, objs, m)
        /\ last'.op = "search" =>
               /\ last'.ret = ContactTrie_search(root, last'.args[1])
               /\ \A m \in Names :
                      SearchValue(root', objs', m) = SearchValue(root, objs, m)
      ]_vars

\* C14: the state sent in response to a POST is read after the request's
\* own mutation and holds its effect: after an add the added entry is in
\* it, after a delete no entry matching the delete is in it; it is never a
\* state read before the mutation.
C14_ResponseAfterMutation ==
    \A c \in 1..MaxConns :
        (conns[c].pc = "respond" /\ conns[c].req.method = "POST") =>
            LET a == conns[c].req.action
                args == conns[c].req.args
                body == conns[c].body[1]
            IN  /\ conns[c].body = << State >>
                /\ a = "add_contact" =>
                       [ name |-> args[1], phone |-> args[2],
                         email |-> args[3] ] \in Range(body.contacts)
                /\ a = "delete_contact" =>
                       \A k \in Range(body.contacts) :
                           ~SameName(k.name, args[1])
                /\ a = "add_reminder" =>
                       [ text |-> args[1], time |-> args[2] ]
                           \in Range(body.reminders)
                /\ a = "delete_reminder" =>
                       [ text |-> args[1], time |-> args[2] ]
                           \notin Range(body.reminders)
                /\ a = "add_project" =>
                       [ name |-> args[1], start |-> args[2],
                         end |-> args[3] ] \in Range(body.projects)
                /\ a = "delete_project" =>
                       \A k \in Range(body.projects) :
                           ~(k.name = args[1] /\ k.start = args[2])

\* C15: in every reachable state get_all_sorted() and search_prefix("")
\* return the same sequence of contacts: the same dicts in the same order.
C15_ListingIsEmptyPrefix ==
    /\ ContactTrie_get_all_sorted(root) = ContactTrie_search_prefix(root, << >>)
    /\ (last.op = "search_prefix" /\ last.args[1] = << >>)
         => last.ret = ContactTrie_get_all_sorted(root)

\* search_prefix("") has returned the two stored contacts, one of them the
\* contact of the empty name, held by the root
C15_Witness ==
    /\ last.op = "search_prefix"
    /\ last.args[1] = << >>
    /\ Len(last.ret) = 2
    /\ root[<< >>] = last.ret[1]
    /\ ListedNames = << << >>, <<97, 98>> >>

\* C16: delete(name) on a stored contact removes only that contact: every
\* contact of a different case-insensitive name is still returned by search
\* and by the listing, with its fields unchanged, whether its name is a
\* prefix of the deleted name, extends it or shares a prefix with it.
C16_DeleteOnlyThat ==
    [][ (last'.op = "delete" /\ last'.hit > 0) =>
            LET new == StateOf(root', objs', heap', projects').contacts
                old == StateOf(root, objs, heap, projects).contacts
            IN  \A k \in Range(old) :
                    ~SameName(k.name, last'.args[1]) =>
                        /\ k \in Range(new)
                        /\ SearchValue(root', objs', k.name) = << k >>
      ]_vars

\* C17: a POST with one of the six actions whose body lacks a field the
\* action reads faults before any container method is called: the three
\* containers stay exactly as they were and no 200 response with the state
\* is written for it.
C17_MissingFieldFaults ==
    [][ \A c \in 1..MaxConns :
          (/\ conns[c].req.method = "POST"
           /\ conns[c].req.action \in Actions
           /\ Len(conns[c].req.args) < Fields(conns[c].req.action)
           /\ conns'[c] # conns[c])
            => /\ << root', objs', heap', projects', ghost' >>
                     = << root, objs, heap, projects, ghost >>
               /\ conns[c].pc = "dispatch" => conns'[c].pc = "fault"
               /\ conns[c].pc = "fault" => conns'[c] = Closed
               /\ conns[c].pc \in { "dispatch", "fault" }
               /\ conns'[c].body = NoData
      ]_vars

\* add_project without `end` has faulted, with a project and a contact
\* stored
C17_Witness ==
    \E c \in 1..MaxConns :
        /\ conns[c].pc = "fault"
        /\ conns[c].req = Post("add_project", << <<112>>, <<49>> >>)
        /\ Len(State.projects) = 1
        /\ Len(State.contacts) = 1

\* C18: insert with the empty name succeeds and stores the contact at the
\* root of the trie; while it is there search("") returns it, it is the
\* first element of the listing and no search_prefix of a non-empty prefix
\* returns it; delete("") removes it and nothing else, neither another
\* contact nor a node, the root included.
C18_EmptyName ==
    [][ /\ (last'.op = "insert" /\ last'.args[1] = << >>) =>
               /\ root'[<< >>] # None
               /\ objs'[root'[<< >>]]
                      = [ name |-> << >>, phone |-> last'.args[2],
                          email |-> last'.args[3] ]
        /\ (<< root', objs' >> # << root, objs >> /\ root'[<< >>] # None) =>
               /\ ContactTrie_search(root', << >>) = root'[<< >>]
               /\ ContactTrie_get_all_sorted(root')[1] = root'[<< >>]
               /\ \A p \in Names \ { << >> } :
                      root'[<< >>]
                          \notin Range(ContactTrie_search_prefix(root', p))
        /\ (last'.op = "delete" /\ last'.args[1] = << >>) =>
               /\ root' = [ root EXCEPT ![<< >>] = None ]
               /\ \A r \in Stored(root') : objs'[r] = objs[r]
               /\ ContactTrie_search(root', << >>) = None
      ]_vars

\* delete("") has removed the contact of the empty name and left "a"
C18_Witness ==
    /\ last.op = "delete"
    /\ last.args[1] = << >>
    /\ last.hit = 1
    /\ ListedNames = << <<97>> >>

\* C19: after any inserts and deletes the trie has no dead branch: every
\* node but the root that has no children holds a contact; so when all
\* contacts have been deleted the root has no children.
C19_NoDeadBranch ==
    /\ \A p \in DOMAIN root :
           (p # << >> /\ children(root, p) = {}) => root[p] # None
    /\ Stored(root) = {} => children(root, << >>) = {}

\* delete("ab") has removed the last contact and pruned its chain of two
\* nodes
C19_Witness ==
    /\ last.op = "delete"
    /\ last.args[1] = <<97, 98>>
    /\ last.hit = 1
    /\ last.size = 1
    /\ DOMAIN root = { << >> }

\* the array h is a binary min-heap under tuple ordering: no element is
\* greater than its children, at positions 2i+1 and 2i+2 counting from 0
IsHeap(h) ==
    \A i \in 0..(Len(h) - 1) :
        /\ 2 * i + 1 < Len(h) => ~TupleLess(h[2 * i + 2], h[i + 1])
        /\ 2 * i + 2 < Len(h) => ~TupleLess(h[2 * i + 3], h[i + 1])

\* C20: after any adds and removes the arrays ReminderQueue.heap and
\* ProjectQueue.projects are binary min-heaps under tuple ordering, so that
\* a heappush after a remove works on a valid heap.
C20_HeapProperty == IsHeap(heap) /\ IsHeap(projects)

\* a remove has taken one of three reminders and left two that differ,
\* while the three projects are a heap that is not in sorted order
C20_Witness ==
    /\ last.op = "remove_reminder"
    /\ last.hit = 1
    /\ last.size = 3
    /\ TupleLess(heap[1], heap[2])
    /\ Len(projects) = 3
    /\ TupleLess(projects[3], projects[2])

====
